---- MODULE Spec2Model ----
(***************************************************************************)
(* The three training orchestrators of attribute_game/pl_model.py          *)
(* (AttributeBaseLineModel, AttributeModelWithPrediction,                   *)
(* AttributeModelMerged): forward data flow, training and validation step,  *)
(* optimizer parameter set, and the mode flag of the networks they own.     *)
(*                                                                          *)
(* Tensors are modelled by value.  The time axis is a sequence, so python   *)
(* timestep t is index t + 1 here; the batch axis is a function over        *)
(* 0 .. batch_size - 1; a frame is a vector over the symbols.  Scalars       *)
(* (losses, the loss weight) are fixed point numbers counted in halves:     *)
(* 5 stands for 2.5.                                                        *)
(***************************************************************************)
EXTENDS Integers, Sequences, FiniteSets, TLC

MaxLen == 2
n_symbols == 3
n_receiver == 3

\* the elements of one batch
Batch == {0, 1}
batch_size == Cardinality(Batch)
Symbols == 0 .. (n_symbols - 1)
Choices == 0 .. (n_receiver - 1)
PredictorKinds == {0, 1}
Weights == {0, 1, 3}
Variants == {"Baseline", "WithPrediction", "Merged"}
None == "None"

VARIABLES variant, pack_message, weight, mode, optimizer,
          pc, op, calls, fwd, recv_in, flat, out_probs, target,
          loss_receiver, loss_predictor, loss, log, result, outcome

vars == <<variant, pack_message, weight, mode, optimizer,
          pc, op, calls, fwd, recv_in, flat, out_probs, target,
          loss_receiver, loss_predictor, loss, log, result, outcome>>

config == <<variant, pack_message, weight>>
tensors == <<fwd, recv_in, flat>>
scalars == <<out_probs, target, loss_receiver, loss_predictor, loss>>
locals == <<tensors, scalars>>

(***************************************************************************)
(* Tensor helpers                                                           *)
(***************************************************************************)
OneHot(n, s) == [i \in 0 .. (n - 1) |-> IF i = s THEN 1 ELSE 0]

Zeros(n) == [i \in 0 .. (n - 1) |-> 0]

\* torch.argmax over the last axis: the first index holding the maximum
ArgMax(v) ==
    CHOOSE i \in DOMAIN v :
        /\ \A j \in DOMAIN v : v[j] <= v[i]
        /\ \A j \in DOMAIN v : v[j] = v[i] => i <= j

RECURSIVE SumTo(_, _)
SumTo(f, n) == IF n = 0 THEN 0 ELSE f[n] + SumTo(f, n - 1)

MinOf(S) == CHOOSE x \in S : \A y \in S : x <= y

\* x.reshape(-1, n_symbols) of a (time, batch, n_symbols) tensor: row major,
\* python row t * batch + b is index t * batch + b + 1
Reshape(x) ==
    [i \in 1 .. (Len(x) * batch_size) |->
        x[((i - 1) \div batch_size) + 1][(i - 1) % batch_size]]

\* x[:-1, :, :]
DropLast(x) == SubSeq(x, 1, Len(x) - 1)

Frames == {OneHot(n_symbols, s) : s \in Symbols}
Messages == [1 .. MaxLen -> [Batch -> Frames]]
Targets == [Batch -> Choices]
Networks(v) == IF v = "Baseline" THEN {"sender", "receiver"}
               ELSE {"sender", "receiver", "predictor"}

(***************************************************************************)
(* Collaborators that live outside pl_model.py                              *)
(***************************************************************************)
\* attribute_game.utils.pack: argmax per timestep, effective length is the
\* first stop symbol (index 0) plus one, or max_len when there is none
pack(message, max_len) ==
    LET indices == [t \in 1 .. Len(message) |->
                       [b \in Batch |-> ArgMax(message[t][b])]]
        stops(b) == {t \in 1 .. Len(message) : indices[t][b] = 0}
    IN  [data    |-> message,
         lengths |-> [b \in Batch |->
                        IF stops(b) # {} THEN MinOf(stops(b)) ELSE max_len]]

\* the receiver network: a deterministic function of what it is handed
ReceiverOut(score) ==
    [out       |-> [b \in Batch |-> [c \in Choices |->
                       IF c = score[b] % n_receiver THEN 2 ELSE 0]],
     out_probs |-> [b \in Batch |-> OneHot(n_receiver, score[b] % n_receiver)]]

receiver(x) ==
    IF x.kind = "message"
    THEN ReceiverOut([b \in Batch |->
             SumTo([t \in 1 .. Len(x.v) |-> ArgMax(x.v[t][b])], Len(x.v))])
    ELSE IF x.kind = "packed"
    THEN ReceiverOut([b \in Batch |->
             SumTo([t \in 1 .. x.v.lengths[b] |-> ArgMax(x.v.data[t][b])],
                   x.v.lengths[b])])
    ELSE ReceiverOut(x.v)

\* the predictor network: one output frame per input frame; output k has
\* seen input frames 1 .. k.  pw stands for the predictor's weights.
predictor(msgs, pw) ==
    LET sym(k, b) == (ArgMax(msgs[k][b]) + pw) % n_symbols
    IN  [logits |-> [k \in 1 .. Len(msgs) |-> [b \in Batch |->
                        [at |-> k, b |-> b, kind |-> "logits",
                         dist |-> [s \in Symbols |->
                                     IF s = sym(k, b) THEN 2 ELSE 0]]]],
         probs  |-> [k \in 1 .. Len(msgs) |-> [b \in Batch |->
                        [at |-> k, b |-> b, kind |-> "probs",
                         dist |-> OneHot(n_symbols, sym(k, b))]]],
         hidden |-> [b \in Batch |->
                        pw + SumTo([k \in 1 .. Len(msgs) |->
                                       ArgMax(msgs[k][b])], Len(msgs))]]

\* loss_module(out_probs, target): the receiver's classification loss
loss_module(probs, tgt) ==
    2 * Cardinality({b \in Batch : ArgMax(probs[b]) # tgt[b]})

\* loss_module_predictor(logits, soft targets, ignore_index): positions
\* whose target class is ignore_index do not count
cross_entropy_loss(logits, tgt, ignore_index) ==
    2 * Cardinality({i \in DOMAIN tgt :
            /\ ArgMax(tgt[i]) # ignore_index
            /\ ArgMax(logits[i].dist) # ArgMax(tgt[i])})

\* list(network.parameters())
parameters(net) ==
    IF net = "sender" THEN <<"sender.0", "sender.1">>
    ELSE IF net = "receiver" THEN <<"receiver.0">>
    ELSE <<"predictor.0", "predictor.1">>

(***************************************************************************)
(* forward                                                                  *)
(***************************************************************************)
\* mutant of BaselineReturn: max_len handed to pack one too small
BaselineReturn_ShortMaxLen(msg, pack_flag) ==
    IF pack_flag
    THEN LET msg_packed == pack(msg, MaxLen - 1)
             r == receiver([kind |-> "packed", v |-> msg_packed])
         IN  [ret     |-> <<msg, msg_packed, r.out, r.out_probs, None, None>>,
              recv_in |-> [kind |-> "packed", v |-> msg_packed]]
    ELSE LET r == receiver([kind |-> "message", v |-> msg])
         IN  [ret     |-> <<msg, None, r.out, r.out_probs, None, None>>,
              recv_in |-> [kind |-> "message", v |-> msg]]

BaselineReturn(msg, pack_flag) ==
    IF pack_flag
    THEN LET msg_packed == pack(msg, MaxLen)
             r == receiver([kind |-> "packed", v |-> msg_packed])
         IN  [ret     |-> <<msg, msg_packed, r.out, r.out_probs, None, None>>,
              recv_in |-> [kind |-> "packed", v |-> msg_packed]]
    ELSE LET r == receiver([kind |-> "message", v |-> msg])
         IN  [ret     |-> <<msg, None, r.out, r.out_probs, None, None>>,
              recv_in |-> [kind |-> "message", v |-> msg]]

\* mutant of WithPredictionReturn: the predictor's first output dropped,
\* not its last
WithPredictionReturn_DropFirst(msg, pw, pack_flag) ==
    LET start_symbols == <<[b \in Batch |-> Zeros(n_symbols)]>>
        msgs == start_symbols \o msg
        p == predictor(msgs, pw)
        prediction_logits == Tail(p.logits)
        prediction_probs == Tail(p.probs)
    IN  IF pack_flag
        THEN LET packed_msg == pack(msg, MaxLen)
                 r == receiver([kind |-> "packed", v |-> packed_msg])
             IN  [ret     |-> <<msg, packed_msg, r.out, r.out_probs,
                                prediction_logits, prediction_probs>>,
                  recv_in |-> [kind |-> "packed", v |-> packed_msg]]
        ELSE LET r == receiver([kind |-> "message", v |-> msg])
             IN  [ret     |-> <<msg, None, r.out, r.out_probs,
                                prediction_logits, prediction_probs>>,
                  recv_in |-> [kind |-> "message", v |-> msg]]

\* mutant of WithPredictionReturn: the receiver is handed the predictor's
\* hidden state, as in the Merged variant
WithPredictionReturn_HiddenToReceiver(msg, pw, pack_flag) ==
    LET start_symbols == <<[b \in Batch |-> Zeros(n_symbols)]>>
        msgs == start_symbols \o msg
        p == predictor(msgs, pw)
        prediction_logits == DropLast(p.logits)
        prediction_probs == DropLast(p.probs)
        packed_msg == IF pack_flag THEN pack(msg, MaxLen) ELSE None
        r == receiver([kind |-> "hidden", v |-> p.hidden])
    IN  [ret     |-> <<msg, packed_msg, r.out, r.out_probs,
                       prediction_logits, prediction_probs>>,
         recv_in |-> [kind |-> "hidden", v |-> p.hidden]]

WithPredictionReturn(msg, pw, pack_flag) ==
    LET start_symbols == <<[b \in Batch |-> Zeros(n_symbols)]>>
        msgs == start_symbols \o msg
        p == predictor(msgs, pw)
        prediction_logits == DropLast(p.logits)
        prediction_probs == DropLast(p.probs)
    IN  IF pack_flag
        THEN LET packed_msg == pack(msg, MaxLen)
                 r == receiver([kind |-> "packed", v |-> packed_msg])
             IN  [ret     |-> <<msg, packed_msg, r.out, r.out_probs,
                                prediction_logits, prediction_probs>>,
                  recv_in |-> [kind |-> "packed", v |-> packed_msg]]
        ELSE LET r == receiver([kind |-> "message", v |-> msg])
             IN  [ret     |-> <<msg, None, r.out, r.out_probs,
                                prediction_logits, prediction_probs>>,
                  recv_in |-> [kind |-> "message", v |-> msg]]

MergedReturn(msg, pw) ==
    LET start_symbols == <<[b \in Batch |-> Zeros(n_symbols)]>>
        packed_msg == pack(msg, MaxLen)
        msgs == start_symbols \o msg
        p == predictor(msgs, pw)
        prediction_logits == DropLast(p.logits)
        prediction_probs == DropLast(p.probs)
        last_hidden == p.hidden
        r == receiver([kind |-> "hidden", v |-> last_hidden])
    IN  [ret     |-> <<msg, packed_msg, r.out, r.out_probs,
                       prediction_logits, prediction_probs>>,
         recv_in |-> [kind |-> "hidden", v |-> last_hidden]]

Init ==
    /\ variant \in Variants
    /\ pack_message \in (IF variant = "Merged" THEN {FALSE} ELSE BOOLEAN)
    /\ weight \in (IF variant = "Baseline" THEN {0} ELSE Weights)
    /\ mode = [n \in Networks(variant) |-> "train"]
    /\ optimizer = <<>>
    /\ pc = "idle"
    /\ op = "none"
    /\ calls = <<>>
    /\ fwd = <<>>
    /\ recv_in = None
    /\ flat = None
    /\ out_probs = None
    /\ target = None
    /\ loss_receiver = None
    /\ loss_predictor = None
    /\ loss = None
    /\ log = <<>>
    /\ result = None
    /\ outcome = "none"

(***************************************************************************)
(* configure_optimizers                                                     *)
(***************************************************************************)
BaselineParameters ==
    parameters("sender") \o parameters("receiver")

\* mutant of WithPredictionParameters: the predictor's parameters left out
WithPredictionParameters_NoPredictor ==
    parameters("sender") \o parameters("receiver")

WithPredictionParameters ==
    parameters("sender") \o parameters("receiver") \o parameters("predictor")

MergedParameters ==
    parameters("sender") \o parameters("receiver") \o parameters("predictor")

\* the trainer configures the optimizer once, before the first step
ConfigureOptimizers ==
    /\ pc = "idle"
    /\ op = "none"
    /\ optimizer = <<>>
    /\ optimizer' = (IF variant = "Baseline" THEN BaselineParameters
                     ELSE IF variant = "WithPrediction"
                          THEN WithPredictionParameters
                          ELSE MergedParameters)
    /\ UNCHANGED <<config, mode, pc, op, calls, locals, log, result, outcome>>

(***************************************************************************)
(* mode switches of validation_step                                         *)
(***************************************************************************)
BaselineEval(m) == [m EXCEPT !["sender"] = "eval", !["receiver"] = "eval"]

BaselineTrain(m) == [m EXCEPT !["sender"] = "train", !["receiver"] = "train"]

\* mutant of WithPredictionEval: self.predictor.eval() left out
WithPredictionEval_NoPredictor(m) ==
    [m EXCEPT !["sender"] = "eval", !["receiver"] = "eval"]

WithPredictionEval(m) ==
    [m EXCEPT !["sender"] = "eval", !["receiver"] = "eval",
              !["predictor"] = "eval"]

WithPredictionTrain(m) ==
    [m EXCEPT !["sender"] = "train", !["receiver"] = "train",
              !["predictor"] = "train"]

(***************************************************************************)
(* the step bodies after forward                                            *)
(***************************************************************************)
Accuracy(correct, n) == [num |-> correct, den |-> n]

Entry(name, value) == [name |-> name, value |-> value]

\* how many names the step unpacks forward's return value into
UnpackNames(v) == IF v = "Merged" THEN 5 ELSE 6

BaselineTrainMetrics(probs, tgt) ==
    LET loss_ == loss_module(probs, tgt)
        predicted_indices == [b \in Batch |-> ArgMax(probs[b])]
        correct == Accuracy(
            Cardinality({b \in Batch : predicted_indices[b] = tgt[b]}),
            batch_size)
    IN  [loss_receiver |-> loss_,
         loss          |-> loss_,
         log |-> << Entry("loss_receiver", loss_),
                    Entry("total_loss", loss_),
                    Entry("accuracy", correct) >>]

BaselineValMetrics(probs, tgt) ==
    LET loss_ == loss_module(probs, tgt)
        predicted_indices == [b \in Batch |-> ArgMax(probs[b])]
        correct == Accuracy(
            Cardinality({b \in Batch : predicted_indices[b] = tgt[b]}),
            batch_size)
    IN  [loss_receiver |-> loss_,
         loss          |-> loss_,
         log |-> << Entry("val_loss_receiver", loss_),
                    Entry("val_total_loss", loss_),
                    Entry("val_accuracy", correct) >>]

\* the three reshape(-1, n_symbols) of the predictor variants
WithPredictionTrainTargets(ret) ==
    [prediction_squeezed |-> Reshape(ret[5]),
     prediction_probs    |-> Reshape(ret[6]),
     msg_target          |-> Reshape(ret[1])]

WithPredictionValTargets(ret) ==
    [prediction_squeezed |-> Reshape(ret[5]),
     prediction_probs    |-> Reshape(ret[6]),
     msg_target          |-> Reshape(ret[1])]

\* predictor loss and predictor accuracy, up to the first self.log
WithPredictionTrainPredictor(fl) ==
    LET lp == cross_entropy_loss(fl.prediction_squeezed, fl.msg_target,
                                 n_symbols - 1)
        indices == [i \in DOMAIN fl.msg_target |-> ArgMax(fl.msg_target[i])]
        accuracyPredictions ==
            [i \in DOMAIN fl.prediction_probs |->
                ArgMax(fl.prediction_probs[i].dist)]
        correct == Cardinality({i \in DOMAIN indices :
                                   accuracyPredictions[i] = indices[i]})
        predictor_accuracy == Accuracy(correct, Len(indices))
    IN  [loss_predictor |-> lp,
         log |-> << Entry("accuracy predictor", predictor_accuracy) >>]

\* mutant of WithPredictionValPredictor: no ignore_index, as in the Merged
\* variant's call of the predictor loss
WithPredictionValPredictor_NoIgnore(fl) ==
    LET lp == cross_entropy_loss(fl.prediction_squeezed, fl.msg_target, -100)
        indices == [i \in DOMAIN fl.msg_target |-> ArgMax(fl.msg_target[i])]
        accuracyPredictions ==
            [i \in DOMAIN fl.prediction_probs |->
                ArgMax(fl.prediction_probs[i].dist)]
        correct == Cardinality({i \in DOMAIN indices :
                                   accuracyPredictions[i] = indices[i]})
        predictor_accuracy == Accuracy(correct, Len(indices))
    IN  [loss_predictor |-> lp,
         log |-> << Entry("val accuracy predictor", predictor_accuracy) >>]

WithPredictionValPredictor(fl) ==
    LET lp == cross_entropy_loss(fl.prediction_squeezed, fl.msg_target,
                                 n_symbols - 1)
        indices == [i \in DOMAIN fl.msg_target |-> ArgMax(fl.msg_target[i])]
        accuracyPredictions ==
            [i \in DOMAIN fl.prediction_probs |->
                ArgMax(fl.prediction_probs[i].dist)]
        correct == Cardinality({i \in DOMAIN indices :
                                   accuracyPredictions[i] = indices[i]})
        predictor_accuracy == Accuracy(correct, Len(indices))
    IN  [loss_predictor |-> lp,
         log |-> << Entry("val accuracy predictor", predictor_accuracy) >>]

\* receiver loss, total loss, receiver accuracy and the last four self.log
\* mutant of WithPredictionTrainMetrics: the predictor loss added unweighted
WithPredictionTrainMetrics_Unweighted(probs, tgt, lp, w) ==
    LET lr == loss_module(probs, tgt)
        loss_ == lr + lp
        predicted_indices == [b \in Batch |-> ArgMax(probs[b])]
        correct == Accuracy(
            Cardinality({b \in Batch : predicted_indices[b] = tgt[b]}),
            batch_size)
    IN  [loss_receiver |-> lr,
         loss          |-> loss_,
         log |-> << Entry("loss_predictor", lp),
                    Entry("loss_receiver", lr),
                    Entry("total_loss", loss_),
                    Entry("accuracy", correct) >>]

WithPredictionTrainMetrics(probs, tgt, lp, w) ==
    LET lr == loss_module(probs, tgt)
        loss_ == lr + ((w * lp) \div 2)
        predicted_indices == [b \in Batch |-> ArgMax(probs[b])]
        correct == Accuracy(
            Cardinality({b \in Batch : predicted_indices[b] = tgt[b]}),
            batch_size)
    IN  [loss_receiver |-> lr,
         loss          |-> loss_,
         log |-> << Entry("loss_predictor", lp),
                    Entry("loss_receiver", lr),
                    Entry("total_loss", loss_),
                    Entry("accuracy", correct) >>]

WithPredictionValMetrics(probs, tgt, lp, w) ==
    LET lr == loss_module(probs, tgt)
        loss_ == lr + ((w * lp) \div 2)
        predicted_indices == [b \in Batch |-> ArgMax(probs[b])]
        correct == Accuracy(
            Cardinality({b \in Batch : predicted_indices[b] = tgt[b]}),
            batch_size)
    IN  [loss_receiver |-> lr,
         loss          |-> loss_,
         log |-> << Entry("val_loss_predictor", lp),
                    Entry("val_loss_receiver", lr),
                    Entry("val_total_loss", loss_),
                    Entry("val_accuracy", correct) >>]

(***************************************************************************)
(* Steps.  pc is the position inside the running step:                      *)
(*   idle -> forward -> unpack -> (flatten -> predictor ->) loss            *)
(*        -> (end ->) idle                                                  *)
(* halted: an error left the step; nothing in the program catches it, so    *)
(* the run ends there.  A local of the step is dropped from the state       *)
(* after its last use.                                                      *)
(***************************************************************************)
ClearStep ==
    /\ calls' = <<>>
    /\ fwd' = <<>>
    /\ recv_in' = None
    /\ flat' = None
    /\ out_probs' = None
    /\ target' = None
    /\ loss_receiver' = None
    /\ loss_predictor' = None
    /\ loss' = None
    /\ log' = <<>>
    /\ result' = None
    /\ outcome' = "none"

\* mutant of TrainBegin: the training step switches the networks to
\* evaluation mode like the validation step does
TrainBegin_SwitchesToEval ==
    /\ pc = "idle"
    /\ optimizer # <<>>
    /\ mode' = [n \in DOMAIN mode |-> "eval"]
    /\ op' = "train"
    /\ pc' = "forward"
    /\ ClearStep
    /\ UNCHANGED <<config, optimizer>>

TrainBegin ==
    /\ pc = "idle"
    /\ optimizer # <<>>
    /\ op' = "train"
    /\ pc' = "forward"
    /\ ClearStep
    /\ UNCHANGED <<config, mode, optimizer>>

ValBegin ==
    /\ pc = "idle"
    /\ optimizer # <<>>
    /\ variant # "Merged"
    /\ mode' = (IF variant = "Baseline" THEN BaselineEval(mode)
                ELSE WithPredictionEval(mode))
    /\ op' = "val"
    /\ pc' = "forward"
    /\ ClearStep
    /\ UNCHANGED <<config, optimizer>>

Called(net) == [net |-> net, mode |-> mode[net]]

BaselineForward ==
    /\ pc = "forward"
    /\ variant = "Baseline"
    /\ \E msg \in Messages :
          LET r == BaselineReturn(msg, pack_message)
          IN  /\ fwd' = r.ret
              /\ recv_in' = r.recv_in
    /\ calls' = <<Called("sender"), Called("receiver")>>
    /\ pc' = "unpack"
    /\ UNCHANGED <<config, mode, optimizer, op, flat, scalars, log, result,
                   outcome>>

WithPredictionForward ==
    /\ pc = "forward"
    /\ variant = "WithPrediction"
    /\ \E msg \in Messages, pw \in PredictorKinds :
          LET r == WithPredictionReturn(msg, pw, pack_message)
          IN  /\ fwd' = r.ret
              /\ recv_in' = r.recv_in
    /\ calls' = <<Called("sender"), Called("predictor"), Called("receiver")>>
    /\ pc' = "unpack"
    /\ UNCHANGED <<config, mode, optimizer, op, flat, scalars, log, result,
                   outcome>>

MergedForward ==
    /\ pc = "forward"
    /\ variant = "Merged"
    /\ \E msg \in Messages, pw \in PredictorKinds :
          LET r == MergedReturn(msg, pw)
          IN  /\ fwd' = r.ret
              /\ recv_in' = r.recv_in
    /\ calls' = <<Called("sender"), Called("predictor"), Called("receiver")>>
    /\ pc' = "unpack"
    /\ UNCHANGED <<config, mode, optimizer, op, flat, scalars, log, result,
                   outcome>>

\* a collaborator called by forward (sender, predictor, pack, receiver) raises
ForwardRaises ==
    /\ pc = "forward"
    /\ pc' = "halted"
    /\ outcome' = "raised"
    /\ UNCHANGED <<config, mode, optimizer, op, calls, tensors, scalars, log,
                   result>>

\* a, b, ... = self.forward(...): as many names as forward returns values
Unpack ==
    /\ pc = "unpack"
    /\ Len(fwd) = UnpackNames(variant)
    /\ out_probs' = fwd[4]
    /\ pc' = (IF variant = "WithPrediction" THEN "flatten" ELSE "loss")
    /\ UNCHANGED <<config, mode, optimizer, op, calls, tensors, target,
                   loss_receiver, loss_predictor, loss, log, result, outcome>>

\* ValueError: too many values to unpack
UnpackValueError ==
    /\ pc = "unpack"
    /\ Len(fwd) # UnpackNames(variant)
    /\ pc' = "halted"
    /\ outcome' = "ValueError"
    /\ UNCHANGED <<config, mode, optimizer, op, calls, tensors, scalars, log,
                   result>>

WithPredictionTrainFlatten ==
    /\ pc = "flatten"
    /\ op = "train"
    /\ flat' = WithPredictionTrainTargets(fwd)
    /\ pc' = "predictor"
    /\ UNCHANGED <<config, mode, optimizer, op, calls, fwd, recv_in, scalars,
                   log, result, outcome>>

WithPredictionValFlatten ==
    /\ pc = "flatten"
    /\ op = "val"
    /\ flat' = WithPredictionValTargets(fwd)
    /\ pc' = "predictor"
    /\ UNCHANGED <<config, mode, optimizer, op, calls, fwd, recv_in, scalars,
                   log, result, outcome>>

DropTensors ==
    /\ fwd' = <<>>
    /\ recv_in' = None
    /\ flat' = None

WithPredictionTrainPredictorLoss ==
    /\ pc = "predictor"
    /\ op = "train"
    /\ LET c == WithPredictionTrainPredictor(flat)
       IN  /\ loss_predictor' = c.loss_predictor
           /\ log' = c.log
    /\ DropTensors
    /\ pc' = "loss"
    /\ UNCHANGED <<config, mode, optimizer, op, calls, out_probs, target,
                   loss_receiver, loss, result, outcome>>

WithPredictionValPredictorLoss ==
    /\ pc = "predictor"
    /\ op = "val"
    /\ LET c == WithPredictionValPredictor(flat)
       IN  /\ loss_predictor' = c.loss_predictor
           /\ log' = c.log
    /\ DropTensors
    /\ pc' = "loss"
    /\ UNCHANGED <<config, mode, optimizer, op, calls, out_probs, target,
                   loss_receiver, loss, result, outcome>>

\* the predictor's loss module or the first self.log raises
PredictorLossRaises ==
    /\ pc = "predictor"
    /\ pc' = "halted"
    /\ outcome' = "raised"
    /\ UNCHANGED <<config, mode, optimizer, op, calls, tensors, scalars, log,
                   result>>

BaselineTrainingStep ==
    /\ pc = "loss"
    /\ op = "train"
    /\ variant = "Baseline"
    /\ \E tgt \in Targets :
          LET c == BaselineTrainMetrics(out_probs, tgt)
          IN  /\ target' = tgt
              /\ loss_receiver' = c.loss_receiver
              /\ loss' = c.loss
              /\ log' = c.log
              /\ result' = c.loss
    /\ DropTensors
    /\ outcome' = "returned"
    /\ pc' = "idle"
    /\ UNCHANGED <<config, mode, optimizer, op, calls, out_probs,
                   loss_predictor>>

WithPredictionTrainingStep ==
    /\ pc = "loss"
    /\ op = "train"
    /\ variant = "WithPrediction"
    /\ \E tgt \in Targets :
          LET c == WithPredictionTrainMetrics(out_probs, tgt, loss_predictor,
                                              weight)
          IN  /\ target' = tgt
              /\ loss_receiver' = c.loss_receiver
              /\ loss' = c.loss
              /\ log' = log \o c.log
              /\ result' = c.loss
    /\ outcome' = "returned"
    /\ pc' = "idle"
    /\ UNCHANGED <<config, mode, optimizer, op, calls, tensors, out_probs,
                   loss_predictor>>

BaselineValidationStep ==
    /\ pc = "loss"
    /\ op = "val"
    /\ variant = "Baseline"
    /\ \E tgt \in Targets :
          LET c == BaselineValMetrics(out_probs, tgt)
          IN  /\ target' = tgt
              /\ loss_receiver' = c.loss_receiver
              /\ loss' = c.loss
              /\ log' = c.log
    /\ DropTensors
    /\ pc' = "end"
    /\ UNCHANGED <<config, mode, optimizer, op, calls, out_probs,
                   loss_predictor, result, outcome>>

WithPredictionValidationStep ==
    /\ pc = "loss"
    /\ op = "val"
    /\ variant = "WithPrediction"
    /\ \E tgt \in Targets :
          LET c == WithPredictionValMetrics(out_probs, tgt, loss_predictor,
                                            weight)
          IN  /\ target' = tgt
              /\ loss_receiver' = c.loss_receiver
              /\ loss' = c.loss
              /\ log' = log \o c.log
    /\ pc' = "end"
    /\ UNCHANGED <<config, mode, optimizer, op, calls, tensors, out_probs,
                   loss_predictor, result, outcome>>

\* the receiver's loss module, a metric computation or self.log raises
MetricsRaise ==
    /\ pc = "loss"
    /\ pc' = "halted"
    /\ outcome' = "raised"
    /\ UNCHANGED <<config, mode, optimizer, op, calls, tensors, scalars, log,
                   result>>

\* the last two or three statements of validation_step, then it returns None
ValidationRestore ==
    /\ pc = "end"
    /\ op = "val"
    /\ mode' = (IF variant = "Baseline" THEN BaselineTrain(mode)
                ELSE WithPredictionTrain(mode))
    /\ outcome' = "returned"
    /\ pc' = "idle"
    /\ UNCHANGED <<config, optimizer, op, calls, tensors, scalars, log,
                   result>>

Next ==
    \/ ConfigureOptimizers
    \/ TrainBegin
    \/ ValBegin
    \/ BaselineForward
    \/ WithPredictionForward
    \/ MergedForward
    \/ ForwardRaises
    \/ Unpack
    \/ UnpackValueError
    \/ WithPredictionTrainFlatten
    \/ WithPredictionValFlatten
    \/ WithPredictionTrainPredictorLoss
    \/ WithPredictionValPredictorLoss
    \/ PredictorLossRaises
    \/ BaselineTrainingStep
    \/ WithPredictionTrainingStep
    \/ BaselineValidationStep
    \/ WithPredictionValidationStep
    \/ MetricsRaise
    \/ ValidationRestore

Spec == Init /\ [][Next]_vars
(***************************************************************************)
(* Properties                                                               *)
(***************************************************************************)
Range(f) == {f[i] : i \in DOMAIN f}

AllIn(m) == \A n \in Networks(variant) : mode[n] = m

Packs == variant = "Merged" \/ pack_message

HasPredictor == variant \in {"WithPrediction", "Merged"}

\* python timestep t of sequence b holds the stop symbol
StopAt(msg, t, b) == ArgMax(msg[t + 1][b]) = 0

\* C1: when a validation step has ended, by returning or by an error raised
\* inside it, every participating network is in training mode.
C1_RestoredOnEveryExit ==
    (op = "val" /\ pc \in {"idle", "halted"}) => AllIn("train")

\* C2: the effective length pack reports for a sequence is i + 1 for the
\* first timestep i whose argmax is the stop symbol, at most max_len, and
\* exactly max_len when no timestep's argmax is the stop symbol.
C2_PackLengths ==
    (fwd # <<>> /\ Packs) =>
        \A b \in Batch :
            LET n == fwd[2].lengths[b]
            IN  /\ n \in 1 .. MaxLen
                /\ \A t \in 0 .. (n - 2) : ~StopAt(fwd[1], t, b)
                /\ \/ StopAt(fwd[1], n - 1, b)
                   \/ /\ n = MaxLen
                      /\ \A t \in 0 .. (MaxLen - 1) : ~StopAt(fwd[1], t, b)

C2_Witness ==
    /\ fwd # <<>>
    /\ Packs
    /\ variant = "Baseline"
    /\ StopAt(fwd[1], 0, 0)
    /\ fwd[2].lengths[0] = 1
    /\ \A t \in 0 .. (MaxLen - 1) : ~StopAt(fwd[1], t, 1)
    /\ fwd[2].lengths[1] = MaxLen

\* C3: in the predictor variants forward returns as many prediction
\* timesteps as the message has, the prediction at timestep t being the
\* predictor's output after the start frame and message[0 .. t-1]; after
\* the flattening for the loss, row t * batch + b pairs that prediction of
\* batch element b with the target message[t][b].
C3_ShiftAlignment ==
    /\ (HasPredictor /\ fwd # <<>>) =>
          /\ Len(fwd[1]) = MaxLen
          /\ Len(fwd[5]) = MaxLen
          /\ Len(fwd[6]) = MaxLen
          /\ \A t \in 0 .. (MaxLen - 1), b \in Batch :
                /\ fwd[5][t + 1][b].at = t + 1
                /\ fwd[5][t + 1][b].b = b
                /\ fwd[6][t + 1][b].at = t + 1
                /\ fwd[6][t + 1][b].b = b
    /\ pc = "predictor" =>
          /\ Len(flat.prediction_squeezed) = MaxLen * batch_size
          /\ Len(flat.prediction_probs) = MaxLen * batch_size
          /\ Len(flat.msg_target) = MaxLen * batch_size
          /\ \A t \in 0 .. (MaxLen - 1), b \in Batch :
                LET i == t * batch_size + b + 1
                IN  /\ flat.prediction_squeezed[i].at = t + 1
                    /\ flat.prediction_squeezed[i].b = b
                    /\ flat.prediction_squeezed[i].kind = "logits"
                    /\ flat.prediction_probs[i].at = t + 1
                    /\ flat.prediction_probs[i].b = b
                    /\ flat.msg_target[i] = fwd[1][t + 1][b]

C3_Witness ==
    /\ pc = "predictor"
    /\ op = "train"
    /\ fwd[1][1][0] # fwd[1][2][0]
    /\ fwd[1][1][0] # fwd[1][1][1]
    /\ fwd[1][2][0] # fwd[1][2][1]

\* C4: a training step that returns, returns loss_receiver in the Baseline
\* variant and loss_receiver + predictor_loss_weight * loss_predictor in the
\* predictor variants, and logs that value, once, as total_loss.
C4_LossComposition ==
    (op = "train" /\ outcome = "returned") =>
        /\ variant = "Baseline" => result = loss_receiver
        /\ HasPredictor =>
              2 * result = 2 * loss_receiver + weight * loss_predictor
        /\ Cardinality({i \in DOMAIN log : log[i].name = "total_loss"}) = 1
        /\ \A i \in DOMAIN log :
              log[i].name = "total_loss" => log[i].value = result

\* weight 0.5, loss_receiver 2.0, loss_predictor 1.0, returned 2.5
C4_Witness ==
    /\ op = "train"
    /\ outcome = "returned"
    /\ variant = "WithPrediction"
    /\ weight = 1
    /\ loss_receiver = 4
    /\ loss_predictor = 2
    /\ result = 5

\* C5: the training step of every variant, run on a well formed batch with
\* no collaborator raising, ends by returning the total loss.
C5_TrainingStepReturns ==
    (op = "train" /\ pc \in {"idle", "halted"} /\ outcome # "raised") =>
        (outcome = "returned" /\ result = loss)

\* C6: in the With-Prediction variant the receiver is handed the message,
\* packed when pack_message is set and raw otherwise, and what it is handed
\* and what it returns are the same whatever the predictor puts out; the
\* predictor runs in both settings of pack_message.
C6_ReceiverIndependentOfPredictor ==
    (variant = "WithPrediction" /\ fwd # <<>>) =>
        /\ recv_in.kind = (IF pack_message THEN "packed" ELSE "message")
        /\ recv_in.kind = "packed" => recv_in.v = fwd[2]
        /\ recv_in.kind = "message" => recv_in.v = fwd[1]
        /\ \A pw \in PredictorKinds :
              LET r == WithPredictionReturn(fwd[1], pw, pack_message)
              IN  /\ r.recv_in.kind = recv_in.kind
                  /\ r.recv_in.v = recv_in.v
                  /\ r.ret[4] = fwd[4]
        /\ \E i \in DOMAIN calls : calls[i].net = "predictor"
        /\ Len(fwd[5]) = MaxLen

C6_Witness ==
    /\ variant = "WithPrediction"
    /\ fwd # <<>>
    /\ pack_message
    /\ \E pw \in PredictorKinds :
          WithPredictionReturn(fwd[1], pw, pack_message).ret[5] # fwd[5]

\* C7: the optimizer holds every parameter of every network of the variant
\* (sender and receiver; the predictor too in the predictor variants), no
\* other parameter, and none twice.
C7_OptimizerParameters ==
    optimizer # <<>> =>
        /\ Range(optimizer) =
              UNION {Range(parameters(n)) : n \in Networks(variant)}
        /\ \A i, j \in DOMAIN optimizer :
              optimizer[i] = optimizer[j] => i = j

C7_Witness ==
    /\ optimizer # <<>>
    /\ variant = "WithPrediction"
    /\ \E i \in DOMAIN optimizer : optimizer[i] = "predictor.1"

\* C8: in a validation step every participating network is in evaluation
\* mode before the sender runs and through forward, the losses and the
\* logging, each network was in evaluation mode when it was called, and a
\* network goes back to training mode only after the last metric is logged.
C8_EvalDuringValidation ==
    /\ [](/\ (op = "val" /\ pc \in {"forward", "unpack", "flatten",
                                    "predictor", "loss", "end"})
                 => AllIn("eval")
          /\ (op = "val" /\ pc = "forward") => calls = <<>>
          /\ op = "val" =>
                 \A i \in DOMAIN calls : calls[i].mode = "eval")
    /\ [][(\E n \in DOMAIN mode : mode[n] = "eval" /\ mode'[n] = "train")
             => /\ op = "val"
                /\ pc = "end"
                /\ Len(log) = (IF variant = "Baseline" THEN 3 ELSE 5)
                /\ log' = log]_vars

C8_Witness ==
    /\ op = "val"
    /\ pc = "end"
    /\ variant = "WithPrediction"
    /\ AllIn("eval")
    /\ Len(calls) = 3
    /\ Len(log) = 5

\* C9: only the first and the last statements of a validation step change
\* a mode flag; forward, the training step and configure_optimizers leave
\* every flag as it is, so between steps every network is in training mode.
C9_OnlyValidationChangesMode ==
    /\ [][mode' # mode =>
             \/ (pc = "idle" /\ pc' = "forward" /\ op' = "val")
             \/ (pc = "end" /\ pc' = "idle" /\ op = "val")]_vars
    /\ [](pc = "idle" => AllIn("train"))

C9_Witness ==
    /\ pc = "idle"
    /\ op = "train"
    /\ outcome = "returned"
    /\ Len(calls) = 3
    /\ AllIn("train")

Prefixed(name) == {"val_" \o name, "val " \o name}

\* every training metric has exactly one validation metric carrying its
\* prefixed name and its value, and there is no other validation metric
SameMetrics(vlog, tlog) ==
    /\ Len(vlog) = Len(tlog)
    /\ \A k \in DOMAIN tlog :
          /\ Cardinality({i \in DOMAIN vlog :
                             vlog[i].name \in Prefixed(tlog[k].name)}) = 1
          /\ \A i \in DOMAIN vlog :
                vlog[i].name \in Prefixed(tlog[k].name)
                    => vlog[i].value = tlog[k].value
    /\ \A i \in DOMAIN vlog :
          \E k \in DOMAIN tlog : vlog[i].name \in Prefixed(tlog[k].name)

\* C10: each part of a validation step computes what the training step
\* computes from the same forward outputs and targets (flattened tensors,
\* loss_predictor with the same ignore index, loss_receiver, total loss, the
\* two accuracies) and logs it under the training name with the prefix.
C10_ValidationMirrorsTraining ==
    [][/\ (op = "val" /\ pc = "flatten" /\ pc' = "predictor") =>
              flat' = WithPredictionTrainTargets(fwd)
       /\ (op = "val" /\ pc = "predictor" /\ pc' = "loss") =>
              LET t == WithPredictionTrainPredictor(flat)
              IN  /\ loss_predictor' = t.loss_predictor
                  /\ SameMetrics(log', t.log)
       /\ (op = "val" /\ pc = "loss" /\ pc' = "end"
              /\ variant = "WithPrediction") =>
              LET t == WithPredictionTrainMetrics(out_probs, target',
                                                  loss_predictor, weight)
              IN  /\ loss_receiver' = t.loss_receiver
                  /\ loss' = t.loss
                  /\ SubSeq(log', 1, Len(log)) = log
                  /\ SameMetrics(SubSeq(log', Len(log) + 1, Len(log')),
                                 t.log)
       /\ (op = "val" /\ pc = "loss" /\ pc' = "end"
              /\ variant = "Baseline") =>
              LET t == BaselineTrainMetrics(out_probs, target')
              IN  /\ loss_receiver' = t.loss_receiver
                  /\ loss' = t.loss
                  /\ SameMetrics(log', t.log)]_vars

C10_Witness ==
    /\ op = "val"
    /\ pc = "end"
    /\ variant = "WithPrediction"
    /\ weight = 3
    /\ loss_predictor > 0
    /\ loss_receiver > 0
    /\ Len(log) = 5
====
